---- MODULE Spec2Model ----
(***************************************************************************)
(* Occurrence lifecycle of the cleaning tracker API: generation of task    *)
(* occurrences, the user transitions (complete, snooze, skip, assign,      *)
(* reopen) and the overdue sweeper, over the tables task_occurrences and   *)
(* task_completions.                                                       *)
(*                                                                         *)
(* Every request handler awaits the database several times; concurrent     *)
(* requests interleave between two statements.  A handler is therefore one *)
(* action per database round trip that reads or writes the tables: the     *)
(* read-and-guard step and the write step.  A single SQL statement and a   *)
(* committed transaction take effect in one step.                          *)
(*                                                                         *)
(* Spec is the occurrence lifecycle; its instants are ticks of the database *)
(* clock now.  SpecReminders is the reminder scheduler and the notification *)
(* queue worker over the table notifications; its instants are hours of the *)
(* worker's clock utcnow, and its occurrences are there from the start.     *)
(***************************************************************************)
EXTENDS Integers, Sequences, FiniteSets, Bags, TLC

\* ------------------------------------------------------------------ bounds
MaxDate == 0
MaxTime == 1
TicksPerDay == 1
MaxHour == 26
MaxNotifications == 2
MaxAttempts == 2
MaxPulled == 8

\* --------------------------------------------------------------- constants
NULL == "null"
\* NULL in a TIMESTAMPTZ column (instants are integers)
NoInstant == -1

PENDING == "pending"
SNOOZED == "snoozed"
DONE == "done"
SKIPPED == "skipped"
OVERDUE == "overdue"
TaskStatus == {PENDING, SNOOZED, DONE, SKIPPED, OVERDUE}

\* http_status of the exceptions the handlers raise
HTTP_OK == 200
HTTP_BAD_REQUEST == 400
HTTP_FORBIDDEN == 403
HTTP_CONFLICT == 409
HTTP_UNPROCESSABLE == 422
HTTP_INTERNAL_SERVER_ERROR == 500

\* hours: timedelta(days=1), 9h le jour de l'echeance, timedelta(hours=2),
\* INTERVAL '2 days', LIMIT 100
HoursPerDay == 24
SameDayHour == 9
HoursBefore == 2
DispatchWindowHours == 48
DispatchLimit == 100
\* max_occurrences: int = 100
DefaultMaxOccurrences == 100
\* RecurrenceService: the safety limits
MAX_OCCURRENCES_PER_YEAR == 366
MAX_GENERATION_DAYS == 365
\* max_occurrences: Optional[int] = None
NoMax == -1
\* the quiet hours of the example of NotificationPreferences
QuietHoursStart == 22
QuietHoursEnd == 8

Clients == {"c1", "c2"}
\* the processes that run process_notification_queue
Workers == {"w1", "w2"}
Users == {"u1", "u2"}
Dates == 0..MaxDate

\* household_members rows (household_id, user_id)
household_members == {<<"h1", "u1">>, <<"h2", "u2">>}

\* get_current_user: the users that send requests
Callers == {"u1"}

\* task_definitions rows, keyed by id
task_definitions ==
  [d \in {"d1", "d2", "d3"} |->
     IF d = "d1" THEN [household_id |-> "h1", recurrence_rule |-> "FREQ=DAILY"]
     ELSE IF d = "d2" THEN [household_id |-> "h1", recurrence_rule |-> ""]
     ELSE [household_id |-> "h1", recurrence_rule |-> "FREQ=DAILY;INTERVAL=2"]]

\* ORDER BY td.title: the definitions in the order of their titles
DefinitionOrder == <<"d1", "d2", "d3">>

VARIABLES
  now,               \* the database clock NOW()
  task_occurrences,  \* table: the rows, keyed by id
  task_completions,  \* table: a set of rows
  call,              \* the requests in progress: a bag of their locals
  resp,              \* the response the last step sent, NoResp if it sent none
  sweeper,           \* the overdue sweeper: its UPDATE in progress, the
                     \* candidate rows of its last UPDATE
  quiet,             \* history: how far a run of sweeps that nothing else
                     \* interleaves has got (1, 2: first sweep started, returned;
                     \* 3, 4: a sweep right after it started, returned)
  utcnow,            \* datetime.now(timezone.utc), in hours
  notifications,     \* table: the rows, keyed by id
  sched,             \* schedule_task_reminders in progress: its locals
  cycles,            \* per worker, _process_notification_queue_async in
                     \* progress: its locals
  reminders,         \* history: per notification id, the dict that
                     \* schedule_task_reminders returned for it
  transport,         \* history: per notification id, the instants at which it
                     \* was handed to the email transport
  recurrence         \* a call of the RecurrenceService: its arguments, its
                     \* locals and what it returned

lvars == <<now, task_occurrences, task_completions, call, sweeper, quiet>>
rvars == <<utcnow, notifications, sched, cycles, reminders, transport>>
vars == <<now, task_occurrences, task_completions, call, resp, sweeper, quiet,
          utcnow, notifications, sched, cycles, reminders, transport, recurrence>>

\* ----------------------------------------------------------------- helpers
NoQuiet == [n |-> 0, household_id |-> NULL]
SweeperIdle == [pc |-> "idle", household_id |-> NULL, cands |-> {}]
NoResp == [op |-> "none", code |-> 0, body |-> NULL]
SchedIdle == [pc |-> "idle"]
NoRecurrence == [op |-> "none"]
CycleIdle == [pc |-> "idle", queue |-> {}]

OccIds == DOMAIN task_occurrences

\* datetime.combine(scheduled_date, datetime.max.time())
EndOfDay(d) == d * TicksPerDay + (TicksPerDay - 1)

check_household_access(household_id, user_id) ==
  <<household_id, user_id>> \in household_members

HouseholdOf(row) == task_definitions[row.task_id].household_id

\* the dates lo, lo+step, ... that are <= hi, in order
SeqOfRange(lo, hi, step) ==
  IF lo > hi THEN <<>>
  ELSE [k \in 1..(((hi - lo) \div step) + 1) |-> lo + (k - 1) * step]

\* a parser that takes any string for a rule
RuleValid_any(rule) == TRUE

\* rrulestr(rule, dtstart=start): raises on a rule it cannot parse
RuleValid(rule) ==
  rule \in {"FREQ=DAILY", "FREQ=DAILY;INTERVAL=2", "FREQ=WEEKLY;BYDAY=SA,SU",
            "FREQ=DAILY;BYHOUR=0,12", "FREQ=DAILY;BYHOUR=0,12;COUNT=366"}

RuleInterval(rule) == IF rule = "FREQ=DAILY;INTERVAL=2" THEN 2 ELSE 1

\* date.weekday(): 0 is Monday; day 0 of the calendar is a Monday
Weekday(d) == d % 7

\* BYDAY of the rule: the weekdays it falls on
RuleByDay(rule) == IF rule = "FREQ=WEEKLY;BYDAY=SA,SU" THEN {5, 6} ELSE 0..6

\* BYHOUR of the rule: the hours of a day it falls on (that of dtstart,
\* midnight, when it has none)
RuleByHour(rule) ==
  IF rule \in {"FREQ=DAILY;BYHOUR=0,12", "FREQ=DAILY;BYHOUR=0,12;COUNT=366"}
  THEN <<0, 12>> ELSE <<0>>

\* COUNT of the rule: how many datetimes it has from dtstart on, if it says
RuleHasCount(rule) == rule = "FREQ=DAILY;BYHOUR=0,12;COUNT=366"
RuleCount(rule) == 366

\* the days from start to end the rule falls on, dtstart being start
RuleDays(rule, start, end) ==
  SelectSeq(SeqOfRange(start, end, RuleInterval(rule)),
            LAMBDA d : Weekday(d) \in RuleByDay(rule))

\* rrule.between(start_datetime, end_datetime, inc=True): the datetimes
\* <<day, hour>> of the rule from the start of day start to the end of day
\* end, in order
RRuleBetween(rule, start, end) ==
  LET days == RuleDays(rule, start, end)
      hours == RuleByHour(rule)
      n == Len(days) * Len(hours)
      m == IF RuleHasCount(rule) /\ RuleCount(rule) < n THEN RuleCount(rule)
           ELSE n
  IN [k \in 1..m |->
        <<days[((k - 1) \div Len(hours)) + 1], hours[((k - 1) % Len(hours)) + 1]>>]

\* ------------------------------------------------------- table operations
\* task_occurrences without its unique constraint
UniqueViolation_none(table, task_id, scheduled_date) == FALSE

\* UNIQUE(task_id, scheduled_date) of task_occurrences
UniqueViolation(table, task_id, scheduled_date) ==
  \E i \in DOMAIN table :
     table[i].task_id = task_id /\ table[i].scheduled_date = scheduled_date

\* SELECT * FROM task_occurrences WHERE task_id = $1 AND scheduled_date = $2
ExistingId(table, task_id, scheduled_date) ==
  CHOOSE i \in DOMAIN table :
     table[i].task_id = task_id /\ table[i].scheduled_date = scheduled_date

\* id UUID PRIMARY KEY DEFAULT gen_random_uuid(): a value no row has yet
NewId(table, task_id, scheduled_date) ==
  <<task_id, scheduled_date,
    Cardinality({i \in DOMAIN table : i[1] = task_id /\ i[2] = scheduled_date})>>

NewRow(id, task_id, scheduled_date, due_at, assigned_to) ==
  [id |-> id, task_id |-> task_id, scheduled_date |-> scheduled_date,
   due_at |-> due_at, status |-> PENDING, assigned_to |-> assigned_to,
   snoozed_until |-> NoInstant]

\* INSERT ... ON CONFLICT (task_id, scheduled_date) DO UPDATE: the existing
\* row is written over with the values of the call
create_task_occurrence_upsert(table, task_id, scheduled_date, due_at, assigned_to) ==
  LET id == IF UniqueViolation(table, task_id, scheduled_date)
            THEN ExistingId(table, task_id, scheduled_date)
            ELSE NewId(table, task_id, scheduled_date)
      new == NewRow(id, task_id, scheduled_date, due_at, assigned_to)
  IN [table |-> (id :> new) @@ table, row |-> new]

\* INSERT ... RETURNING id, then the new row is read back; on
\* UniqueViolationError the existing row is fetched and returned.  Yields the
\* table after the call and the returned row.
create_task_occurrence(table, task_id, scheduled_date, due_at, assigned_to) ==
  IF UniqueViolation(table, task_id, scheduled_date)
  THEN [table |-> table,
        row |-> table[ExistingId(table, task_id, scheduled_date)]]
  ELSE LET id == NewId(table, task_id, scheduled_date)
           new == NewRow(id, task_id, scheduled_date, due_at, assigned_to)
       IN [table |-> table @@ (id :> new), row |-> new]

\* an UPDATE that never writes snoozed_until = NULL
update_task_occurrence_status_keep(table, id, status, kwargs) ==
  IF id \notin DOMAIN table THEN table
  ELSE
    LET r1 == [table[id] EXCEPT !.status = status]
        r2 == IF "assigned_to" \in DOMAIN kwargs
              THEN [r1 EXCEPT !.assigned_to = kwargs.assigned_to] ELSE r1
        r3 == IF "snoozed_until" \in DOMAIN kwargs /\ status = SNOOZED
              THEN [r2 EXCEPT !.snoozed_until = kwargs.snoozed_until]
              ELSE r2
    IN [table EXCEPT ![id] = r3]

\* UPDATE task_occurrences SET status = $2 [, assigned_to] [, snoozed_until]
\* WHERE id = $1.  kwargs is a record holding the keyword arguments passed.
update_task_occurrence_status(table, id, status, kwargs) ==
  IF id \notin DOMAIN table THEN table
  ELSE
    LET r1 == [table[id] EXCEPT !.status = status]
        r2 == IF "assigned_to" \in DOMAIN kwargs
              THEN [r1 EXCEPT !.assigned_to = kwargs.assigned_to] ELSE r1
        r3 == IF "snoozed_until" \in DOMAIN kwargs /\ status = SNOOZED
              THEN [r2 EXCEPT !.snoozed_until = kwargs.snoozed_until]
              ELSE IF status # SNOOZED
                   THEN [r2 EXCEPT !.snoozed_until = NoInstant]
                   ELSE r2
    IN [table EXCEPT ![id] = r3]

\* UPDATE task_occurrences SET status = 'done' WHERE id = $2
UpdateStatusDone(table, id) ==
  IF id \in DOMAIN table THEN [table EXCEPT ![id].status = DONE] ELSE table

\* the task_completions rows of an occurrence
CompletionsOf(completions, occurrence_id) ==
  {r \in completions : r.occurrence_id = occurrence_id}

\* task_completions without its primary key
PKViolation_none(completions, occurrence_id) == FALSE

\* occurrence_id UUID PRIMARY KEY of task_completions
PKViolation(completions, occurrence_id) ==
  CompletionsOf(completions, occurrence_id) # {}

\* the row INSERT INTO task_completions ... RETURNING * adds; seq tells the
\* rows of one occurrence apart
CompletionRow(completions, occurrence_id, completed_by) ==
  [occurrence_id |-> occurrence_id, completed_by |-> completed_by,
   seq |-> Cardinality(CompletionsOf(completions, occurrence_id))]

\* the two statements run without a transaction: what ran stays
Transaction_autocommit(before, after, committed) == after

\* async with conn.transaction(): the statements run so far take effect
\* when the block ends normally and are undone when it raises
Transaction(before, after, committed) == IF committed THEN after ELSE before

\* the WHERE clause without AND td.household_id = $3
OverdueMatch_nofilter(row, at, household_id) ==
  row.status = PENDING /\ row.due_at < at

\* the WHERE clause without o.status = $2
OverdueMatch_anystatus(row, at, household_id) ==
  /\ row.due_at < at
  /\ (household_id # NULL =>
        task_definitions[row.task_id].household_id = household_id)

\* WHERE clause of the sweeper's UPDATE, NOW() being at
OverdueMatch(row, at, household_id) ==
  /\ row.status = PENDING
  /\ row.due_at < at
  /\ (household_id # NULL => HouseholdOf(row) = household_id)

\* an UPDATE that writes every candidate of its snapshot
SweepTargets_stale(table, cands, at, household_id) == cands

\* The rows the sweeper's UPDATE writes.  The statement finds its candidate
\* rows in the snapshot taken when it starts and, before writing a candidate,
\* evaluates the WHERE clause again on the current version of the row.  (No
\* request changes due_at and the clock only advances, so a candidate is
\* still due whichever instant at is, the start of the statement or later.)
SweepTargets(table, cands, at, household_id) ==
  {i \in cands : OverdueMatch(table[i], at, household_id)}

\* SET status = 'overdue' on the rows the UPDATE writes
SetOverdue(table, hit) ==
  [i \in DOMAIN table |->
     IF i \in hit THEN [table[i] EXCEPT !.status = OVERDUE] ELSE table[i]]

\* ------------------------------------------------------------------- Init
Init ==
  /\ now = 0
  /\ task_occurrences = <<>>
  /\ task_completions = {}
  /\ call = EmptyBag
  /\ resp = NoResp
  /\ sweeper = SweeperIdle
  /\ quiet = NoQuiet
  /\ utcnow = HoursPerDay
  /\ notifications = <<>>
  /\ sched = SchedIdle
  /\ cycles = [w \in Workers |-> CycleIdle]
  /\ reminders = <<>>
  /\ transport = <<>>
  /\ recurrence = NoRecurrence

Respond(op, code, body) == resp' = [op |-> op, code |-> code, body |-> body]

\* a client is free to send a request
CanStart == BagCardinality(call) < Cardinality(Clients)

\* a request passes its first part and keeps locals for its second part
Begin(locals) == call' = call (+) SetToBag({locals})

\* the request with locals r ends
End(r) == call' = call (-) SetToBag({r})

\* ------------------------------------------------------------ generation
\* The dates (occurrence_date.date()) generate_occurrences_for_definition
\* loops over: none when the rule does not parse
GenerationDates(task_def, start_date, end_date) ==
  IF RuleValid(task_def.recurrence_rule)
  THEN LET between == RRuleBetween(task_def.recurrence_rule, start_date, end_date)
       IN [k \in 1..Len(between) |-> between[k][1]]
  ELSE <<>>

\* generate_occurrences_for_definition up to the loop: loads the definition
\* (returns [] when there is none), parses its rule and lists the dates of
\* the window; with no date to create it returns at once
generate_start(task_def_id, start_date, end_date, max_occurrences) ==
  /\ CanStart
  /\ LET dates == IF task_def_id \in DOMAIN task_definitions
                  THEN GenerationDates(task_definitions[task_def_id],
                                       start_date, end_date)
                  ELSE <<>>
     IN IF dates = <<>> \/ max_occurrences <= 0
        THEN /\ Respond("generate", HTTP_OK, <<>>)
             /\ UNCHANGED call
        ELSE /\ Begin([op |-> "generate", task_id |-> task_def_id,
                        dates |-> dates, max_occurrences |-> max_occurrences,
                        created |-> <<>>])
             /\ resp' = NoResp
  /\ quiet' = NoQuiet
  /\ UNCHANGED <<now, task_occurrences, task_completions, sweeper, rvars, recurrence>>

\* one iteration of the loop: create_task_occurrence for the next date; after
\* the last date, or once max_occurrences rows are collected, the rows are
\* returned
generate_create(r) ==
  /\ BagIn(r, call)
  /\ r.op = "generate"
  /\ LET d == Head(r.dates)
         res == create_task_occurrence(task_occurrences, r.task_id, d,
                                       EndOfDay(d), NULL)
         created == Append(r.created, res.row)
         dates == Tail(r.dates)
     IN /\ task_occurrences' = res.table
        /\ IF dates = <<>> \/ Len(created) >= r.max_occurrences
           THEN /\ Respond("generate", HTTP_OK, created)
                /\ End(r)
           ELSE /\ call' = (call (-) SetToBag({r})) (+)
                             SetToBag({[r EXCEPT !.dates = dates,
                                                 !.created = created]})
                /\ resp' = NoResp
  /\ quiet' = NoQuiet
  /\ UNCHANGED <<now, task_completions, sweeper, rvars, recurrence>>

\* ------------------------------------------------------ user transitions
\* a handler that does not look at the status it read
ReadAndGuard_unguarded(op, id, user, rejected, locals) ==
  IF ~check_household_access(HouseholdOf(task_occurrences[id]), user)
  THEN /\ Respond(op, HTTP_FORBIDDEN, NULL)
       /\ UNCHANGED call
  ELSE /\ Begin(locals)
       /\ resp' = NoResp

\* The first part of every handler: get_task_occurrence, the access check
\* and the status guard.  rejected is the set of statuses the guard refuses;
\* locals is what a request that passes keeps for its second part.
ReadAndGuard(op, id, user, rejected, locals) ==
  LET occurrence == task_occurrences[id]
  IN IF ~check_household_access(HouseholdOf(occurrence), user)
     THEN /\ Respond(op, HTTP_FORBIDDEN, NULL)
          /\ UNCHANGED call
     ELSE IF occurrence.status \in rejected
     THEN /\ Respond(op, HTTP_CONFLICT, NULL)
          /\ UNCHANGED call
     ELSE /\ Begin(locals)
          /\ resp' = NoResp

\* complete_occurrence up to the status guard
complete_read(id, user) ==
  /\ CanStart
  /\ id \in OccIds
  /\ ReadAndGuard("complete", id, user, {DONE},
                  [op |-> "complete", id |-> id, user |-> user])
  /\ quiet' = NoQuiet
  /\ UNCHANGED <<now, task_occurrences, task_completions, sweeper, rvars, recurrence>>

\* complete_task_occurrence: the transaction runs its UPDATE and its INSERT;
\* the INSERT raises on a primary key conflict, which undoes the UPDATE and
\* reaches the client as a DatabaseError
complete_write(r) ==
  /\ BagIn(r, call)
  /\ r.op = "complete"
  /\ LET id == r.id
         updated == UpdateStatusDone(task_occurrences, id)
         committed == ~PKViolation(task_completions, id)
         completion == CompletionRow(task_completions, id, r.user)
     IN /\ task_occurrences' = Transaction(task_occurrences, updated, committed)
        /\ IF committed
           THEN /\ task_completions' = task_completions \cup {completion}
                /\ Respond("complete", HTTP_OK, completion)
           ELSE /\ UNCHANGED task_completions
                /\ Respond("complete", HTTP_INTERNAL_SERVER_ERROR, NULL)
  /\ End(r)
  /\ quiet' = NoQuiet
  /\ UNCHANGED <<now, sweeper, rvars, recurrence>>

\* complete_task_occurrence when the database fails at one of the two
\* statements: a failed UPDATE has done nothing, a failed INSERT undoes the
\* UPDATE; either reaches the client as a DatabaseError
complete_fail(r, step) ==
  /\ BagIn(r, call)
  /\ r.op = "complete"
  /\ LET updated == IF step = "insert"
                    THEN UpdateStatusDone(task_occurrences, r.id)
                    ELSE task_occurrences
     IN task_occurrences' = Transaction(task_occurrences, updated, FALSE)
  /\ Respond("complete", HTTP_INTERNAL_SERVER_ERROR, NULL)
  /\ End(r)
  /\ quiet' = NoQuiet
  /\ UNCHANGED <<now, task_completions, sweeper, rvars, recurrence>>

\* The second part of snooze, skip, assign and reopen: the UPDATE of
\* update_task_occurrence_status and the row read back for the response
StatusWrite(r, op, status, kwargs) ==
  /\ BagIn(r, call)
  /\ r.op = op
  /\ task_occurrences' =
       update_task_occurrence_status(task_occurrences, r.id, status, kwargs)
  /\ Respond(op, HTTP_OK, task_occurrences'[r.id])
  /\ End(r)
  /\ quiet' = NoQuiet
  /\ UNCHANGED <<now, task_completions, sweeper, rvars, recurrence>>

\* a validator that lets the present instant through
validate_future_date_lax(v, at) == v >= at

\* TaskOccurrenceSnooze.validate_future_date: if v <= now: raise ValueError
validate_future_date(v, at) == ~(v <= at)

\* the request body is validated, then snooze_occurrence runs up to the
\* status guard
snooze_read(id, user, snoozed_until) ==
  /\ CanStart
  /\ id \in OccIds
  /\ IF ~validate_future_date(snoozed_until, now)
     THEN /\ Respond("snooze", HTTP_UNPROCESSABLE, NULL)
          /\ UNCHANGED call
     ELSE ReadAndGuard("snooze", id, user, {DONE, SKIPPED},
                       [op |-> "snooze", id |-> id,
                        snoozed_until |-> snoozed_until])
  /\ quiet' = NoQuiet
  /\ UNCHANGED <<now, task_occurrences, task_completions, sweeper, rvars, recurrence>>

snooze_write(r) ==
  StatusWrite(r, "snooze", SNOOZED, [snoozed_until |-> r.snoozed_until])

\* skip_occurrence up to the status guard
skip_read(id, user) ==
  /\ CanStart
  /\ id \in OccIds
  /\ ReadAndGuard("skip", id, user, {DONE, SKIPPED},
                  [op |-> "skip", id |-> id])
  /\ quiet' = NoQuiet
  /\ UNCHANGED <<now, task_occurrences, task_completions, sweeper, rvars, recurrence>>

skip_write(r) == StatusWrite(r, "skip", OVERDUE, <<>>)

\* assign_occurrence up to the status guard; the membership of the assignee
\* is checked before the status
assign_read(id, user, assigned_to) ==
  /\ CanStart
  /\ id \in OccIds
  /\ IF /\ check_household_access(HouseholdOf(task_occurrences[id]), user)
        /\ ~check_household_access(HouseholdOf(task_occurrences[id]), assigned_to)
     THEN /\ Respond("assign", HTTP_BAD_REQUEST, NULL)
          /\ UNCHANGED call
     ELSE ReadAndGuard("assign", id, user, {DONE, SKIPPED},
                       [op |-> "assign", id |-> id,
                        status |-> task_occurrences[id].status,
                        assigned_to |-> assigned_to])
  /\ quiet' = NoQuiet
  /\ UNCHANGED <<now, task_occurrences, task_completions, sweeper, rvars, recurrence>>

\* the status written is the one the handler read
assign_write(r) ==
  StatusWrite(r, "assign", r.status, [assigned_to |-> r.assigned_to])

\* reopen_occurrence up to the status guard
reopen_read(id, user) ==
  /\ CanStart
  /\ id \in OccIds
  /\ ReadAndGuard("reopen", id, user, TaskStatus \ {DONE},
                  [op |-> "reopen", id |-> id])
  /\ quiet' = NoQuiet
  /\ UNCHANGED <<now, task_occurrences, task_completions, sweeper, rvars, recurrence>>

\* a reopen that also deletes the completion of the occurrence
reopen_write_delete(r) ==
  /\ BagIn(r, call)
  /\ r.op = "reopen"
  /\ task_occurrences' =
       update_task_occurrence_status(task_occurrences, r.id, PENDING, <<>>)
  /\ task_completions' = task_completions \ CompletionsOf(task_completions, r.id)
  /\ Respond("reopen", HTTP_OK, task_occurrences'[r.id])
  /\ End(r)
  /\ quiet' = NoQuiet
  /\ UNCHANGED <<now, sweeper, rvars, recurrence>>

reopen_write(r) == StatusWrite(r, "reopen", PENDING, <<>>)

\* ---------------------------------------------------------------- sweeper
\* check_and_update_overdue_occurrences: the UPDATE starts
sweep_scan(household_id) ==
  /\ sweeper.pc = "idle"
  /\ sweeper' = [pc |-> "scanned", household_id |-> household_id,
                 cands |-> {i \in OccIds :
                              OverdueMatch(task_occurrences[i], now, household_id)}]
  /\ quiet' = [n |-> IF quiet.n \in {2, 4} /\ quiet.household_id = household_id
                     THEN 3 ELSE 1,
               household_id |-> household_id]
  /\ resp' = NoResp
  /\ UNCHANGED <<now, task_occurrences, task_completions, call, rvars, recurrence>>

\* check_and_update_overdue_occurrences: the UPDATE writes its rows and the
\* number of rows updated is returned
sweep_apply ==
  /\ sweeper.pc = "scanned"
  /\ LET hit == SweepTargets(task_occurrences, sweeper.cands, now,
                             sweeper.household_id)
     IN /\ task_occurrences' = SetOverdue(task_occurrences, hit)
        /\ Respond("sweep", HTTP_OK, Cardinality(hit))
  /\ sweeper' = [sweeper EXCEPT !.pc = "idle", !.household_id = NULL]
  /\ quiet' = IF quiet.n \in {1, 3} THEN [quiet EXCEPT !.n = @ + 1] ELSE NoQuiet
  /\ UNCHANGED <<now, task_completions, call, rvars, recurrence>>

\* time passes
Tick ==
  /\ now < MaxTime
  /\ now' = now + 1
  /\ resp' = NoResp
  /\ quiet' = NoQuiet
  /\ UNCHANGED <<task_occurrences, task_completions, call, sweeper, rvars, recurrence>>

\* ------------------------------------------------------------------- Next
\* snoozed_until as the clients send it: not in the future, in the future
SnoozeArgs == {now, MaxTime + 1}

\* household_id as the callers of the sweeper pass it
SweepArgs == {NULL, "h1", "h2"}

\* max_occurrences as the callers pass it
MaxOccurrencesArgs == {100}

\* task_def_id as the callers pass it: of a definition with a rule, of one
\* with an empty rule, or of none
TaskDefArgs == {"d1", "d2", "d0"}

Next ==
  \/ \E d \in TaskDefArgs, s \in Dates, e \in Dates,
        m \in MaxOccurrencesArgs : s <= e /\ generate_start(d, s, e, m)
  \/ \E r \in BagToSet(call) : generate_create(r)
  \/ \E id \in OccIds, u \in Callers : complete_read(id, u)
  \/ \E r \in BagToSet(call) : complete_write(r)
  \/ \E r \in BagToSet(call), step \in {"update", "insert"} : complete_fail(r, step)
  \/ \E id \in OccIds, u \in Callers, t \in SnoozeArgs :
        snooze_read(id, u, t)
  \/ \E r \in BagToSet(call) : snooze_write(r)
  \/ \E id \in OccIds, u \in Callers : skip_read(id, u)
  \/ \E r \in BagToSet(call) : skip_write(r)
  \/ \E id \in OccIds, u \in Callers, a \in Users :
        assign_read(id, u, a)
  \/ \E r \in BagToSet(call) : assign_write(r)
  \/ \E id \in OccIds, u \in Callers : reopen_read(id, u)
  \/ \E r \in BagToSet(call) : reopen_write(r)
  \/ \E h \in SweepArgs : sweep_scan(h)
  \/ sweep_apply
  \/ Tick

Spec == Init /\ [][Next]_vars

\* ------------------------------------------------ snoozes that run out
\* snoozed_until as a client sends it when the clock is at 0: the next tick
SoonArgs == {1}

\* occurrences are generated and snoozed, time passes, and the sweeper runs
NextSweep ==
  \/ \E d \in TaskDefArgs, s \in Dates, e \in Dates,
        m \in MaxOccurrencesArgs : s <= e /\ generate_start(d, s, e, m)
  \/ \E r \in BagToSet(call) : generate_create(r)
  \/ \E id \in OccIds, u \in Callers, t \in SoonArgs :
        snooze_read(id, u, t)
  \/ \E r \in BagToSet(call) : snooze_write(r)
  \/ \E h \in SweepArgs : sweep_scan(h)
  \/ sweep_apply
  \/ Tick

SpecSweep == Init /\ [][NextSweep]_vars

\* ============================================================== reminders
\* datetime.combine(due_at.date(), datetime.min.time())
DayStart(t) == (t \div HoursPerDay) * HoursPerDay

\* _get_user_preferences: the defaults
DefaultPreferences ==
  [preferred_channel |-> "push", reminder_day_before |-> TRUE,
   reminder_same_day |-> TRUE, reminder_2h_before |-> TRUE]

\* _calculate_reminder_times, the clock being at: the (instant, type) pairs in
\* the order the code appends them
calculate_reminder_times(due_at, preferences, at) ==
  LET day_before ==
        IF preferences.reminder_day_before
        THEN <<[scheduled_for |-> due_at - HoursPerDay, type |-> "day_before"]>>
        ELSE <<>>
      same_day ==
        IF /\ preferences.reminder_same_day
           /\ DayStart(due_at) + SameDayHour < due_at
        THEN <<[scheduled_for |-> DayStart(due_at) + SameDayHour,
                type |-> "same_day"]>>
        ELSE <<>>
      before_2h ==
        IF /\ preferences.reminder_2h_before
           /\ due_at - HoursBefore > at
        THEN <<[scheduled_for |-> due_at - HoursBefore, type |-> "2h_before"]>>
        ELSE <<>>
  IN day_before \o same_day \o before_2h

\* a test that lets the present instant through
NotInThePast_lax(reminder_time, at) == reminder_time >= at

\* if reminder_time > datetime.now(timezone.utc)
NotInThePast(reminder_time, at) == reminder_time > at

\* id BIGINT GENERATED ALWAYS AS IDENTITY
NewNotificationId == Cardinality(DOMAIN notifications) + 1

\* the row INSERT INTO notifications (occurrence_id, member_id, channel,
\* created_at) adds
NotificationRow(id, occurrence_id, member_id, channel) ==
  [id |-> id, occurrence_id |-> occurrence_id, member_id |-> member_id,
   channel |-> channel, sent_at |-> NoInstant, delivered |-> FALSE,
   created_at |-> utcnow]

\* the quiet hours the preferences of the call carry, if any
QuietHoursOf(preferences) ==
  IF "quiet_hours_start" \in DOMAIN preferences
  THEN <<preferences.quiet_hours_start, preferences.quiet_hours_end>>
  ELSE <<>>

\* schedule_task_reminders up to the loop: reads the occurrence, returns []
\* when nobody is assigned, takes the preferences and computes the reminders
schedule_start(occurrence_id, user_preferences) ==
  /\ sched.pc = "idle"
  /\ occurrence_id \in OccIds
  /\ LET occurrence == task_occurrences[occurrence_id]
         preferences == IF DOMAIN user_preferences = {} THEN DefaultPreferences
                        ELSE user_preferences
         reminder_times == calculate_reminder_times(occurrence.due_at,
                                                    preferences, utcnow)
     IN IF occurrence.assigned_to = NULL \/ reminder_times = <<>>
        THEN /\ Respond("schedule", HTTP_OK, <<>>)
             /\ UNCHANGED sched
        ELSE /\ sched' = [pc |-> "inserting", occurrence_id |-> occurrence_id,
                          member_id |-> occurrence.assigned_to,
                          channel |-> preferences.preferred_channel,
                          quiet_hours |-> QuietHoursOf(preferences),
                          reminder_times |-> reminder_times, i |-> 1,
                          scheduled_reminders |-> <<>>]
             /\ resp' = NoResp
  /\ UNCHANGED <<lvars, recurrence, utcnow, notifications, cycles, reminders, transport>>

\* one iteration of the loop: a reminder that is not in the past is inserted
\* and appended to the result; after the last one the result is returned
schedule_insert ==
  /\ sched.pc = "inserting"
  /\ LET reminder == sched.reminder_times[sched.i]
         id == NewNotificationId
         scheduled == [notification_id |-> id,
                       scheduled_for |-> reminder.scheduled_for,
                       type |-> reminder.type, channel |-> sched.channel]
         insert == NotInThePast(reminder.scheduled_for, utcnow)
         scheduled_reminders == IF insert
                                THEN Append(sched.scheduled_reminders, scheduled)
                                ELSE sched.scheduled_reminders
     IN /\ insert => Cardinality(DOMAIN notifications) < MaxNotifications
        /\ IF insert
           THEN /\ notifications' = notifications @@
                     (id :> NotificationRow(id, sched.occurrence_id,
                                            sched.member_id, sched.channel))
                /\ reminders' = reminders @@ (id :> scheduled)
                /\ transport' = transport @@ (id :> <<>>)
           ELSE UNCHANGED <<notifications, reminders, transport>>
        /\ IF sched.i = Len(sched.reminder_times)
           THEN /\ Respond("schedule", HTTP_OK, scheduled_reminders)
                /\ sched' = SchedIdle
           ELSE /\ sched' = [sched EXCEPT !.i = @ + 1,
                                          !.scheduled_reminders = scheduled_reminders]
                /\ resp' = NoResp
  /\ UNCHANGED <<lvars, recurrence, utcnow, cycles>>

\* WHERE n.sent_at IS NULL AND n.delivered = FALSE
\*   AND o.due_at <= $1 + INTERVAL '2 days'
DueNotifications(at) ==
  {n \in DOMAIN notifications :
     /\ notifications[n].sent_at = NoInstant
     /\ notifications[n].delivered = FALSE
     /\ notifications[n].occurrence_id \in OccIds
     /\ task_occurrences[notifications[n].occurrence_id].due_at
          <= at + DispatchWindowHours}

\* LIMIT: the sets of at most limit rows the query can return
Limited(rows, limit) ==
  IF Cardinality(rows) <= limit THEN {rows}
  ELSE {q \in SUBSET rows : Cardinality(q) = limit}

\* _process_notification_queue_async: the SELECT of the rows to send
dispatch_select(w) ==
  /\ cycles[w].pc = "idle"
  /\ \E queue \in Limited(DueNotifications(utcnow), DispatchLimit) :
        cycles' = [cycles EXCEPT ![w] =
                     IF queue = {} THEN CycleIdle
                     ELSE [pc |-> "sending", queue |-> queue]]
  /\ resp' = NoResp
  /\ UNCHANGED <<lvars, recurrence, utcnow, notifications, sched, reminders, transport>>

\* the notification is handed to the transport: an email is sent, a push
\* notification is not, _get_user_expo_token returning None
Handed(n) ==
  IF notifications[n].channel = "email"
  THEN [transport EXCEPT ![n] = Append(@, utcnow)]
  ELSE transport

\* the worker is done with notification n of its queue
Dequeue(w, n) ==
  IF cycles[w].queue = {n} THEN [cycles EXCEPT ![w] = CycleIdle]
  ELSE [cycles EXCEPT ![w].queue = @ \ {n}]

\* one iteration of the worker's loop: the notification is sent, success
\* telling how that went, and its row is marked
dispatch_send(w, n, success) ==
  /\ cycles[w].pc = "sending"
  /\ n \in cycles[w].queue
  /\ notifications[n].channel = "push" => ~success
  /\ Len(transport[n]) < MaxAttempts
  /\ transport' = Handed(n)
  /\ notifications' = [notifications EXCEPT ![n].sent_at = utcnow,
                                            ![n].delivered = success]
  /\ cycles' = Dequeue(w, n)
  /\ resp' = NoResp
  /\ UNCHANGED <<lvars, recurrence, utcnow, sched, reminders>>

\* one iteration of the worker's loop when the UPDATE raises: the exception
\* is logged and the row stays as it was
dispatch_fail(w, n) ==
  /\ cycles[w].pc = "sending"
  /\ n \in cycles[w].queue
  /\ Len(transport[n]) < MaxAttempts
  /\ transport' = Handed(n)
  /\ cycles' = Dequeue(w, n)
  /\ resp' = NoResp
  /\ UNCHANGED <<lvars, recurrence, utcnow, notifications, sched, reminders>>

\* an hour passes
TickHour ==
  /\ utcnow < MaxHour
  /\ utcnow' = utcnow + 1
  /\ resp' = NoResp
  /\ UNCHANGED <<lvars, recurrence, notifications, sched, cycles, reminders, transport>>

\* due_at of the occurrences the reminders are about: a day at 10:00, a day
\* at 02:00, and one more than two days ahead
DueArgs == {HoursPerDay + 10, 2 * HoursPerDay + 2, 3 * HoursPerDay + 2}

\* user_preferences as the callers pass it: nothing (None and {} are both
\* "not user_preferences"), or a dict asking for email, with the reminder of
\* the day before and any of the two others, or the preferences of the
\* recipient as notification_preferences stores them, quiet hours included
PreferencesArgs ==
  {<<>>} \cup [preferred_channel : {"email"}, reminder_day_before : {TRUE},
               reminder_same_day : BOOLEAN, reminder_2h_before : BOOLEAN]
         \cup {[preferred_channel |-> "push", reminder_day_before |-> TRUE,
                reminder_same_day |-> TRUE, reminder_2h_before |-> TRUE,
                quiet_hours_start |-> QuietHoursStart,
                quiet_hours_end |-> QuietHoursEnd]}

\* one occurrence, assigned or not
InitReminders ==
  /\ now = 0
  /\ \E due_at \in DueArgs, assigned_to \in {NULL} \cup Callers :
        task_occurrences =
          (<<"d1", 0, 0>> :> NewRow(<<"d1", 0, 0>>, "d1", 0, due_at, assigned_to))
  /\ task_completions = {}
  /\ call = EmptyBag
  /\ resp = NoResp
  /\ sweeper = SweeperIdle
  /\ quiet = NoQuiet
  /\ utcnow = HoursPerDay
  /\ notifications = <<>>
  /\ sched = SchedIdle
  /\ cycles = [w \in Workers |-> CycleIdle]
  /\ reminders = <<>>
  /\ transport = <<>>
  /\ recurrence = NoRecurrence

NextReminders ==
  \/ \E id \in OccIds, p \in PreferencesArgs : schedule_start(id, p)
  \/ schedule_insert
  \/ \E w \in Workers : dispatch_select(w)
  \/ \E w \in Workers, n \in DOMAIN notifications, success \in BOOLEAN :
        dispatch_send(w, n, success)
  \/ \E w \in Workers, n \in DOMAIN notifications : dispatch_fail(w, n)
  \/ TickHour

SpecReminders == InitReminders /\ [][NextReminders]_vars

\* ==================================================== household generation
\* date.today()
Today == now \div TicksPerDay

\* get_task_definitions(pool, household_id=household_id)
get_task_definitions(household_id) ==
  SelectSeq(DefinitionOrder,
            LAMBDA d : task_definitions[d].household_id = household_id)

\* the (definition, date) pairs generate_occurrences_for_household goes
\* through: for each definition in turn, the dates
\* generate_occurrences_for_definition loops over, at most max_occurrences
RECURSIVE HouseholdDates(_, _, _)
HouseholdDates(task_defs, start_date, end_date) ==
  IF task_defs = <<>> THEN <<>>
  ELSE LET task_def_id == Head(task_defs)
           dates == GenerationDates(task_definitions[task_def_id],
                                    start_date, end_date)
           kept == SubSeq(dates, 1, IF Len(dates) < DefaultMaxOccurrences
                                    THEN Len(dates) ELSE DefaultMaxOccurrences)
       IN [k \in 1..Len(kept) |-> <<task_def_id, kept[k]>>]
          \o HouseholdDates(Tail(task_defs), start_date, end_date)

\* generate_household_occurrences up to the first INSERT: the access check,
\* the window from today, the definitions of the household
household_generate_start(household_id, user, days_ahead) ==
  /\ CanStart
  /\ IF ~check_household_access(household_id, user)
     THEN /\ Respond("generate_household", HTTP_FORBIDDEN, NULL)
          /\ UNCHANGED call
     ELSE LET todo == HouseholdDates(get_task_definitions(household_id),
                                     Today, Today + days_ahead)
          IN IF todo = <<>>
             THEN /\ Respond("generate_household", HTTP_OK,
                             [count |-> 0, days_ahead |-> days_ahead])
                  /\ UNCHANGED call
             ELSE /\ Begin([op |-> "generate_household",
                             household_id |-> household_id,
                             days_ahead |-> days_ahead, todo |-> todo,
                             all_occurrences |-> <<>>])
                  /\ resp' = NoResp
  /\ quiet' = NoQuiet
  /\ UNCHANGED <<now, task_occurrences, task_completions, sweeper, rvars, recurrence>>

\* create_task_occurrence for the next date of the definition at hand; after
\* the last date of the last definition the count is returned
household_generate_create(r) ==
  /\ BagIn(r, call)
  /\ r.op = "generate_household"
  /\ LET next == Head(r.todo)
         res == create_task_occurrence(task_occurrences, next[1], next[2],
                                       EndOfDay(next[2]), NULL)
         all_occurrences == Append(r.all_occurrences, res.row)
         todo == Tail(r.todo)
     IN /\ task_occurrences' = res.table
        /\ IF todo = <<>>
           THEN /\ Respond("generate_household", HTTP_OK,
                           [count |-> Len(all_occurrences),
                            days_ahead |-> r.days_ahead])
                /\ End(r)
           ELSE /\ call' = (call (-) SetToBag({r})) (+)
                             SetToBag({[r EXCEPT !.todo = todo,
                                                 !.all_occurrences = all_occurrences]})
                /\ resp' = NoResp
  /\ quiet' = NoQuiet
  /\ UNCHANGED <<now, task_completions, sweeper, rvars, recurrence>>

\* the INSERT of create_task_occurrence raises an error that is not a
\* UniqueViolationError: nothing catches it before the handler, which
\* answers with a DatabaseError; the rows created so far stay
household_generate_fail(r) ==
  /\ BagIn(r, call)
  /\ r.op = "generate_household"
  /\ Respond("generate_household", HTTP_INTERNAL_SERVER_ERROR, NULL)
  /\ End(r)
  /\ quiet' = NoQuiet
  /\ UNCHANGED <<now, task_occurrences, task_completions, sweeper, rvars, recurrence>>

\* household_id and days_ahead as the callers pass them
HouseholdArgs == {"h1", "h2"}
DaysAheadArgs == {1, 2}

NextGeneration ==
  \/ \E h \in HouseholdArgs, u \in Callers, n \in DaysAheadArgs :
        household_generate_start(h, u, n)
  \/ \E r \in BagToSet(call) : household_generate_create(r)
  \/ \E r \in BagToSet(call) : household_generate_fail(r)
  \/ \E d \in TaskDefArgs, s \in Dates, e \in Dates,
        m \in MaxOccurrencesArgs : s <= e /\ generate_start(d, s, e, m)
  \/ \E r \in BagToSet(call) : generate_create(r)

SpecGeneration == Init /\ [][NextGeneration]_vars

\* ============================================================ recurrence
\* the calendar: years of 365 days, day 0 the first of January of year 0
YearOf(d) == d \div 365

\* get_holidays(year): the public holidays of the year, here its first and
\* its third day
get_holidays(year) == {year * 365, year * 365 + 2}

\* occurrence_date.weekday() in [5, 6]
IsWeekend(d) == Weekday(d) \in {5, 6}

\* a lookup in the calendar of year 0 whatever the date
IsHoliday_firstyear(d) == d \in get_holidays(0)

\* occurrence_date in self.get_holidays(occurrence_date.year)
IsHoliday(d) == d \in get_holidays(YearOf(d))

\* a ceiling the span may not even reach
SpanTooLong_reached(start_date, end_date) ==
  end_date - start_date >= MAX_GENERATION_DAYS

\* (end_date - start_date).days > self.MAX_GENERATION_DAYS
SpanTooLong(start_date, end_date) == end_date - start_date > MAX_GENERATION_DAYS

\* what a call of the service gives back: the exception it raised, if any,
\* and the list it returned
Returned(occurrences) ==
  [error |-> "none", field |-> "none", occurrences |-> occurrences]
Raised(error, field) == [error |-> error, field |-> field, occurrences |-> <<>>]

\* one iteration of the loop of generate_occurrences_between, on datetime
\* dt: break at the limit (no later iteration appends), continue on an
\* excluded date, append
BetweenStep(dt, occurrences, exclude_holidays, exclude_weekends, max_occurrences) ==
  IF Len(occurrences) >= max_occurrences THEN occurrences
  ELSE IF exclude_weekends /\ IsWeekend(dt[1]) THEN occurrences
  ELSE IF exclude_holidays /\ IsHoliday(dt[1]) THEN occurrences
  ELSE Append(occurrences, dt)

\* the iterations of the loop on the datetimes lo to hi of the rule, in
\* order, occurrences being the list before the first of them; once the
\* loop has broken the later iterations do not run
RECURSIVE BetweenLoop(_, _, _, _, _, _, _)
BetweenLoop(raw, lo, hi, occurrences, exclude_holidays, exclude_weekends, max_occurrences) ==
  IF lo > hi THEN occurrences
  ELSE IF lo = hi
  THEN BetweenStep(raw[lo], occurrences, exclude_holidays, exclude_weekends,
                   max_occurrences)
  ELSE LET mid == (lo + hi) \div 2
           first == BetweenLoop(raw, lo, mid, occurrences, exclude_holidays,
                                exclude_weekends, max_occurrences)
       IN IF Len(first) >= max_occurrences THEN first
          ELSE BetweenLoop(raw, mid + 1, hi, first, exclude_holidays,
                           exclude_weekends, max_occurrences)

\* RecurrenceService.generate_occurrences_between
generate_occurrences_between(rrule_string, start_date, end_date, exclude_holidays, exclude_weekends, max_occurrences) ==
  LET max == IF max_occurrences = NoMax THEN MAX_OCCURRENCES_PER_YEAR
             ELSE max_occurrences
  IN IF end_date < start_date THEN Raised("InvalidInput", "date_range")
     ELSE IF SpanTooLong(start_date, end_date)
     THEN Raised("BusinessRuleViolation", "MAX_GENERATION_PERIOD")
     ELSE IF ~RuleValid(rrule_string) THEN Raised("InvalidInput", "rrule")
     ELSE LET raw == RRuleBetween(rrule_string, start_date, end_date)
          IN Returned(BetweenLoop(raw, 1, Len(raw), <<>>, exclude_holidays,
                                  exclude_weekends, max))

\* the call of generate_occurrences_between returns or raises
between_return ==
  /\ recurrence.op = "between"
  /\ recurrence.pc = "called"
  /\ recurrence' =
       [recurrence EXCEPT
          !.pc = "returned",
          !.result = generate_occurrences_between(
                       recurrence.rrule_string, recurrence.start_date,
                       recurrence.end_date, recurrence.exclude_holidays,
                       recurrence.exclude_weekends, recurrence.max_occurrences)]
  /\ UNCHANGED <<lvars, resp, rvars>>

\* a ceiling the count may not even reach
TooManyOccurrences_reached(n) == n >= MAX_OCCURRENCES_PER_YEAR

\* len(occurrences) > self.MAX_OCCURRENCES_PER_YEAR
TooManyOccurrences(n) == n > MAX_OCCURRENCES_PER_YEAR

\* the RecurrenceInfo a validation returns
Info(is_valid) == [error |-> "none", field |-> "none", is_valid |-> is_valid]

\* RecurrenceService.validate_rrule with _validate_limits, today being the
\* date of the call: an empty or unparseable rule gives an invalid
\* RecurrenceInfo; a rule with too many occurrences from today to the end of
\* the day 365 days later raises BusinessRuleViolation
validate_rrule(rrule_string, today) ==
  IF rrule_string = "" THEN Info(FALSE)
  ELSE IF ~RuleValid(rrule_string) THEN Info(FALSE)
  ELSE LET test_start == today
           test_end == test_start + 365
           occurrences == RRuleBetween(rrule_string, test_start, test_end)
       IN IF TooManyOccurrences(Len(occurrences))
          THEN [Info(FALSE) EXCEPT !.error = "BusinessRuleViolation",
                                   !.field = "MAX_OCCURRENCES"]
          ELSE Info(TRUE)

\* the call of validate_rrule returns or raises
validate_return ==
  /\ recurrence.op = "validate"
  /\ recurrence.pc = "called"
  /\ recurrence' =
       [recurrence EXCEPT
          !.pc = "returned",
          !.result = validate_rrule(recurrence.rrule_string, recurrence.today)]
  /\ UNCHANGED <<lvars, resp, rvars>>

\* rrule_string as the callers pass it: rules, the empty string, garbage
RuleArgs ==
  {"FREQ=DAILY", "FREQ=DAILY;INTERVAL=2", "FREQ=WEEKLY;BYDAY=SA,SU",
   "FREQ=DAILY;BYHOUR=0,12", "FREQ=DAILY;BYHOUR=0,12;COUNT=366", "",
   "NOT_A_RULE"}

\* (start_date, end_date) as the callers pass them: an end before the start,
\* a single day, two weeks, days on both sides of a new year, and spans of
\* the ceiling and one more
WindowArgs ==
  {<<5, 4>>, <<5, 5>>, <<5, 18>>, <<360, 370>>,
   <<5, 5 + MAX_GENERATION_DAYS>>, <<5, 6 + MAX_GENERATION_DAYS>>}

\* max_occurrences as the callers pass it
MaxArgs == {NoMax, 0, 3, 10}

\* the calls of generate_occurrences_between
BetweenCalls ==
  {[op |-> "between", pc |-> "called", rrule_string |-> rule,
    start_date |-> w[1], end_date |-> w[2], exclude_holidays |-> eh,
    exclude_weekends |-> ew, max_occurrences |-> m, result |-> Returned(<<>>)] :
     rule \in RuleArgs, w \in WindowArgs, eh \in BOOLEAN, ew \in BOOLEAN,
     m \in MaxArgs}

\* the k-th datetime the iterator of the rule yields from dtstart on, and
\* whether the iterator has one
RuleHasNth(rule, dtstart, k) == Len(RRuleBetween(rule, dtstart, dtstart + 7 * k)) >= k
RuleNth(rule, dtstart, k) == RRuleBetween(rule, dtstart, dtstart + 7 * k)[k]

\* calculate_next_occurrences up to its loop: a rule rrulestr rejects makes it
\* return [] from the except branch; otherwise the loop starts with no
\* occurrence and max_iterations = count * 3
next_begin ==
  /\ recurrence.op = "next"
  /\ recurrence.pc = "called"
  /\ recurrence' =
       IF ~RuleValid(recurrence.rrule_string)
       THEN [recurrence EXCEPT !.pc = "returned", !.result = <<>>]
       ELSE [recurrence EXCEPT !.pc = "loop",
                               !.occurrences = <<>>,
                               !.max_iterations = recurrence.count * 3]
  /\ UNCHANGED <<lvars, resp, rvars>>

\* one turn of "for dt in rule": the iterator is asked for its next datetime;
\* the loop ends when the rule has no more, or when count occurrences are
\* kept; a weekend or holiday date is skipped by continue; another date is
\* appended, and only then is max_iterations decremented and tested.
\* pulled counts the datetimes taken from the iterator, examined those that
\* reached the exclusion tests.
next_iter ==
  /\ recurrence.op = "next"
  /\ recurrence.pc = "loop"
  /\ recurrence.pulled < MaxPulled
  /\ LET k == recurrence.pulled + 1
         rule == recurrence.rrule_string
     IN IF ~RuleHasNth(rule, recurrence.start_date, k)
        THEN recurrence' = [recurrence EXCEPT !.pc = "returned",
                                              !.result = recurrence.occurrences]
        ELSE LET occurrence_date == RuleNth(rule, recurrence.start_date, k)[1]
                 pulled == [recurrence EXCEPT !.pulled = k] IN
          IF Len(recurrence.occurrences) >= recurrence.count
          THEN recurrence' = [pulled EXCEPT !.pc = "returned",
                                            !.result = recurrence.occurrences]
          ELSE IF \/ recurrence.exclude_weekends /\ IsWeekend(occurrence_date)
                  \/ recurrence.exclude_holidays /\ IsHoliday(occurrence_date)
          THEN recurrence' = [pulled EXCEPT !.examined = @ + 1]
          ELSE LET kept == Append(recurrence.occurrences, occurrence_date)
                   left == recurrence.max_iterations - 1
               IN recurrence' =
                    [pulled EXCEPT
                       !.examined = @ + 1,
                       !.occurrences = kept,
                       !.max_iterations = left,
                       !.pc = IF left <= 0 THEN "returned" ELSE "loop",
                       !.result = IF left <= 0 THEN kept ELSE @]
  /\ UNCHANGED <<lvars, resp, rvars>>

\* date.today() at the call: a Monday, a Saturday
TodayArgs == {0, 5}

\* count as the callers pass it
CountArgs == {0, 1, 2}

\* the calls of calculate_next_occurrences
NextCalls ==
  {[op |-> "next", pc |-> "called", rrule_string |-> rule, start_date |-> d,
    count |-> c, exclude_holidays |-> eh, exclude_weekends |-> ew,
    occurrences |-> <<>>, max_iterations |-> 0, pulled |-> 0, examined |-> 0,
    result |-> <<>>] :
     rule \in RuleArgs, d \in TodayArgs, c \in CountArgs,
     eh \in BOOLEAN, ew \in BOOLEAN}

\* the calls of validate_rrule
ValidateCalls ==
  {[op |-> "validate", pc |-> "called", rrule_string |-> rule, today |-> t,
    result |-> Info(FALSE)] : rule \in RuleArgs, t \in TodayArgs}

\* a call of the service has been made
InitRecurrence ==
  /\ now = 0
  /\ task_occurrences = <<>>
  /\ task_completions = {}
  /\ call = EmptyBag
  /\ resp = NoResp
  /\ sweeper = SweeperIdle
  /\ quiet = NoQuiet
  /\ utcnow = HoursPerDay
  /\ notifications = <<>>
  /\ sched = SchedIdle
  /\ cycles = [w \in Workers |-> CycleIdle]
  /\ reminders = <<>>
  /\ transport = <<>>
  /\ recurrence \in BetweenCalls \cup ValidateCalls \cup NextCalls

NextRecurrence ==
  \/ between_return
  \/ validate_return
  \/ next_begin
  \/ next_iter

SpecRecurrence == InitRecurrence /\ [][NextRecurrence]_vars

\* ================================================================ listing
\* timedelta(days=30): the window a request without dates gets
DefaultWindowDays == 30

\* an optional date: None, or a date
NoDate == <<>>
SomeDate(d) == <<d>>

\* the rows the SELECT of get_task_occurrences matches (assigned_to and
\* room_id are not passed)
Matching(table, household_id, start_date, end_date, status) ==
  {i \in DOMAIN table :
     /\ HouseholdOf(table[i]) = household_id
     /\ (start_date # NoDate => table[i].scheduled_date >= start_date[1])
     /\ (end_date # NoDate => table[i].scheduled_date <= end_date[1])
     /\ (status # NULL => table[i].status = status)}

\* ORDER BY o.due_at: the orders the rows may come in, rows with the same
\* due_at in any order
OrderedByDueAt(table, ids) ==
  {seq \in [1..Cardinality(ids) -> ids] :
     \A a, b \in 1..Cardinality(ids) :
       a < b => /\ seq[a] # seq[b]
                /\ table[seq[a]].due_at <= table[seq[b]].due_at}

\* get_task_occurrences: the lists of rows it may return
get_task_occurrences(table, household_id, start_date, end_date, status) ==
  {[k \in DOMAIN seq |-> table[seq[k]]] :
     seq \in OrderedByDueAt(table, Matching(table, household_id, start_date,
                                            end_date, status))}

\* list_household_occurrences up to its first query: the access check, the
\* default window, and, when the window covers today, the sweep of the
\* household, whose failure is logged and ignored
list_start(household_id, user, start_date, end_date, status, swept) ==
  /\ CanStart
  /\ IF ~check_household_access(household_id, user)
     THEN /\ Respond("list", HTTP_FORBIDDEN, NULL)
          /\ UNCHANGED <<call, task_occurrences>>
     ELSE LET defaulted == start_date = NoDate /\ end_date = NoDate
              start == IF defaulted THEN SomeDate(Today) ELSE start_date
              end == IF defaulted THEN SomeDate(Today + DefaultWindowDays)
                     ELSE end_date
              today == Today
              window_start == IF start # NoDate THEN start[1] ELSE today
              window_end == IF end # NoDate THEN end[1] ELSE today
              covers == window_start <= today /\ today <= window_end
              hit == {i \in OccIds :
                        OverdueMatch(task_occurrences[i], now, household_id)}
          IN /\ task_occurrences' =
                  IF covers /\ swept THEN SetOverdue(task_occurrences, hit)
                  ELSE task_occurrences
             /\ Begin([op |-> "list", pc |-> "window",
                       household_id |-> household_id, start_date |-> start,
                       end_date |-> end, status |-> status, today |-> today,
                       covers |-> covers, occurrences |-> <<>>])
             /\ resp' = NoResp
  /\ quiet' = NoQuiet
  /\ UNCHANGED <<now, task_completions, sweeper, rvars, recurrence>>

\* the query of the requested window; the list is returned unless the window
\* covers today and no status filter is set
list_window(r) ==
  /\ BagIn(r, call)
  /\ r.op = "list"
  /\ r.pc = "window"
  /\ \E occurrences \in get_task_occurrences(task_occurrences, r.household_id,
                                             r.start_date, r.end_date, r.status) :
       IF r.covers /\ r.status = NULL
       THEN /\ call' = (call (-) SetToBag({r})) (+)
                       SetToBag({[r EXCEPT !.pc = "overdue",
                                           !.occurrences = occurrences]})
            /\ resp' = NoResp
       ELSE /\ Respond("list", HTTP_OK, occurrences)
            /\ End(r)
  /\ quiet' = NoQuiet
  /\ UNCHANGED <<now, task_occurrences, task_completions, sweeper, rvars, recurrence>>

\* the query of the OVERDUE occurrences dated before today, whose rows are
\* appended to those of the window; the list is returned
list_overdue(r) ==
  /\ BagIn(r, call)
  /\ r.op = "list"
  /\ r.pc = "overdue"
  /\ \E overdue_until_yesterday \in
          get_task_occurrences(task_occurrences, r.household_id, NoDate,
                               SomeDate(r.today - 1), OVERDUE) :
       Respond("list", HTTP_OK, r.occurrences \o overdue_until_yesterday)
  /\ End(r)
  /\ quiet' = NoQuiet
  /\ UNCHANGED <<now, task_occurrences, task_completions, sweeper, rvars, recurrence>>

\* start_date and end_date as the clients send them
ListDateArgs == {NoDate, SomeDate(0), SomeDate(1)}

\* status as the clients send it
ListStatusArgs == {NULL, OVERDUE}

\* occurrences are generated, time passes, and the clients list them
NextList ==
  \/ \E d \in TaskDefArgs, s \in Dates, e \in Dates,
        m \in MaxOccurrencesArgs : s <= e /\ generate_start(d, s, e, m)
  \/ \E r \in BagToSet(call) : generate_create(r)
  \/ \E h \in HouseholdArgs, u \in Callers, s \in ListDateArgs,
        e \in ListDateArgs, st \in ListStatusArgs, swept \in BOOLEAN :
        list_start(h, u, s, e, st, swept)
  \/ \E r \in BagToSet(call) : list_window(r)
  \/ \E r \in BagToSet(call) : list_overdue(r)
  \/ Tick

SpecList == Init /\ [][NextList]_vars

\* ================================================================= claims
\* C1: in every reachable state an occurrence has snoozed_until non-null only
\* if its status is SNOOZED (every transition that leaves SNOOZED clears it).
C1_SnoozedUntilOnlyWhenSnoozed ==
  \A i \in OccIds :
     task_occurrences[i].snoozed_until # NoInstant
        => task_occurrences[i].status = SNOOZED

\* C2: in every reachable state, under any interleaving of complete and
\* reopen calls, each occurrence has at most one task_completions row.
C2_AtMostOneCompletion ==
  \A c1 \in task_completions, c2 \in task_completions :
     c1.occurrence_id = c2.occurrence_id => c1 = c2

\* two complete calls raced on one occurrence: one has committed its row and
\* the other is still past the status guard
C2_Witness ==
  \E r \in BagToSet(call) :
     /\ r.op = "complete"
     /\ task_occurrences[r.id].status = DONE
     /\ Cardinality(CompletionsOf(task_completions, r.id)) = 1

\* C3: complete is all-or-nothing: a step of complete_task_occurrence, one
\* that fails at either statement included, sets the status to DONE exactly
\* when it inserts the completion row of that occurrence; a call that fails
\* leaves both tables as they were.
C3_CompleteAllOrNothing ==
  [][\A r \in BagToSet(call) :
        (complete_write(r) \/ \E step \in {"update", "insert"} : complete_fail(r, step))
        => /\ (task_occurrences' # task_occurrences)
                <=> (task_completions' # task_completions)
           /\ resp'.code = HTTP_OK
                => /\ task_occurrences'[r.id].status = DONE
                   /\ task_completions' \ task_completions = {resp'.body}
                   /\ resp'.body.occurrence_id = r.id
           /\ resp'.code # HTTP_OK
                => UNCHANGED <<task_occurrences, task_completions>>]_vars

\* a complete call has just failed on an occurrence that is not DONE and has
\* no completion row
C3_Witness ==
  /\ resp.op = "complete"
  /\ resp.code = HTTP_INTERNAL_SERVER_ERROR
  /\ task_completions = {}
  /\ OccIds # {}
  /\ \A i \in OccIds : task_occurrences[i].status # DONE

\* C4: a complete call sent right after a complete call on the same
\* occurrence succeeded fails with 409 and changes neither table; the
\* occurrence keeps exactly one completion row.
C4_SecondCompleteConflicts ==
  [][\A i \in OccIds, u \in Callers :
        (/\ resp.op = "complete"
         /\ resp.code = HTTP_OK
         /\ resp.body.occurrence_id = i
         /\ complete_read(i, u))
        => /\ resp'.op = "complete"
           /\ resp'.code = HTTP_CONFLICT
           /\ UNCHANGED <<task_occurrences, task_completions, call>>
           /\ Cardinality(CompletionsOf(task_completions', i)) = 1]_vars

\* a complete call was refused with 409 on an occurrence that is DONE and
\* has its one completion row
C4_Witness ==
  /\ resp.op = "complete"
  /\ resp.code = HTTP_CONFLICT
  /\ \E i \in OccIds :
        /\ task_occurrences[i].status = DONE
        /\ Cardinality(CompletionsOf(task_completions, i)) = 1

\* C5: complete is legal from every status other than DONE whatever the
\* history of the occurrence: when complete_task_occurrence runs on an
\* occurrence that is not DONE the call succeeds, the status becomes DONE
\* and a completion is returned.
C5_CompleteLegalFromNonDone ==
  [][\A r \in BagToSet(call) :
        (complete_write(r) /\ task_occurrences[r.id].status # DONE)
        => /\ resp'.code = HTTP_OK
           /\ task_occurrences'[r.id].status = DONE
           /\ resp'.body \in task_completions']_vars

\* C6: in every reachable state no two occurrences of one definition share
\* a scheduled_date, whatever the interleaving of generation calls.
C6_UniqueScheduledDate ==
  \A i \in OccIds, j \in OccIds :
     (/\ task_occurrences[i].task_id = task_occurrences[j].task_id
      /\ task_occurrences[i].scheduled_date = task_occurrences[j].scheduled_date)
     => i = j

\* a generation call has just returned the occurrence of a (definition,
\* date) pair while another generation call, started before, is about to
\* create the same pair
C6_Witness ==
  /\ resp.op = "generate"
  /\ resp.body # <<>>
  /\ \E r \in BagToSet(call) :
        /\ r.op = "generate"
        /\ r.task_id = resp.body[Len(resp.body)].task_id
        /\ Head(r.dates) = resp.body[Len(resp.body)].scheduled_date

\* C7: creating an occurrence for a (definition, date) pair that exists
\* raises no error, returns the existing row and leaves the table, so every
\* field of that row, unchanged.
C7_CreateExistingReturnsRow ==
  [][\A r \in BagToSet(call) :
        (/\ generate_create(r)
         /\ UniqueViolation(task_occurrences, r.task_id, Head(r.dates)))
        => LET existing == task_occurrences[
                             ExistingId(task_occurrences, r.task_id, Head(r.dates))]
               created == Append(r.created, existing)
           IN /\ task_occurrences' = task_occurrences
              /\ \/ resp' = [op |-> "generate", code |-> HTTP_OK, body |-> created]
                 \/ /\ resp' = NoResp
                    /\ BagIn([r EXCEPT !.dates = Tail(r.dates),
                                       !.created = created], call')]_vars

\* a generation call has returned an occurrence that is no longer as created
\* (completed, snoozed, skipped, swept or assigned since), and the table
\* still holds it that way
C7_Witness ==
  /\ resp.op = "generate"
  /\ \E k \in DOMAIN resp.body :
        /\ \/ resp.body[k].status # PENDING
           \/ resp.body[k].assigned_to # NULL
        /\ task_occurrences[resp.body[k].id] = resp.body[k]

\* C8: the sweeper's UPDATE checks its predicate on the row as it is when it
\* writes: it changes no occurrence whose status is not PENDING, so a user
\* transition that commits while the sweeper runs is not overwritten.
C8_SweepKeepsCommittedStatus ==
  [][sweep_apply
       => \A i \in OccIds :
             task_occurrences[i].status # PENDING
                => task_occurrences'[i] = task_occurrences[i]]_vars

\* the sweeper has returned having written fewer rows than it found when it
\* started: a transition committed on a candidate in between
C8_Witness ==
  /\ resp.op = "sweep"
  /\ resp.body < Cardinality(sweeper.cands)
  /\ \E i \in sweeper.cands : task_occurrences[i].status \notin {PENDING, OVERDUE}

\* C9: the sweeper changes only occurrences that are PENDING with
\* due_at < now and, given a household filter, of that household; it sets
\* their status to OVERDUE and changes nothing else; it returns the number
\* of occurrences it changed.
C9_SweepFrame ==
  [][sweep_apply
       => LET changed == {i \in OccIds : task_occurrences'[i] # task_occurrences[i]}
          IN /\ DOMAIN task_occurrences' = OccIds
             /\ \A i \in changed :
                   /\ task_occurrences[i].status = PENDING
                   /\ task_occurrences[i].due_at < now
                   /\ sweeper.household_id # NULL
                        => task_definitions[task_occurrences[i].task_id].household_id
                             = sweeper.household_id
                   /\ task_occurrences'[i] =
                        [task_occurrences[i] EXCEPT !.status = OVERDUE]
             /\ UNCHANGED <<task_completions, call, now>>
             /\ resp' = [op |-> "sweep", code |-> HTTP_OK,
                         body |-> Cardinality(changed)]]_vars

\* the sweeper has returned having moved an occurrence to OVERDUE
C9_Witness ==
  /\ resp.op = "sweep"
  /\ resp.body >= 1
  /\ \E i \in sweeper.cands : task_occurrences[i].status = OVERDUE

\* C10: a sweep run right after a sweep with the same filter, nothing else
\* happening in between, updates no occurrence and returns 0 without
\* raising.
C10_SweepIdempotent ==
  [][(sweep_apply /\ quiet.n = 3)
       => /\ resp' = [op |-> "sweep", code |-> HTTP_OK, body |-> 0]
          /\ task_occurrences' = task_occurrences]_vars

\* the second of two sweeps in a row has returned, and an occurrence is
\* OVERDUE and past due
C10_Witness ==
  /\ quiet.n = 4
  /\ resp.op = "sweep"
  /\ \E i \in OccIds :
        /\ task_occurrences[i].status = OVERDUE
        /\ task_occurrences[i].due_at < now

\* C11: snooze is accepted exactly when the status read is neither DONE nor
\* SKIPPED and until is strictly after the current time; a rejected snooze
\* writes nothing; an accepted snooze leaves status = SNOOZED and
\* snoozed_until = until and changes nothing else.
C11_SnoozeAcceptedExactlyWhen ==
  [][/\ \A id \in OccIds, u \in Callers, t \in SnoozeArgs :
          (/\ check_household_access(HouseholdOf(task_occurrences[id]), u)
           /\ snooze_read(id, u, t))
          => LET accepted == /\ task_occurrences[id].status \notin {DONE, SKIPPED}
                             /\ t > now
             IN /\ UNCHANGED <<task_occurrences, task_completions>>
                /\ accepted
                     => /\ resp' = NoResp
                        /\ call' = call (+) SetToBag({[op |-> "snooze", id |-> id,
                                                       snoozed_until |-> t]})
                /\ ~accepted
                     => /\ resp'.op = "snooze"
                        /\ resp'.code \in {HTTP_CONFLICT, HTTP_UNPROCESSABLE}
                        /\ call' = call
     /\ \A r \in BagToSet(call) :
          snooze_write(r)
          => /\ task_occurrences' =
                  [task_occurrences EXCEPT ![r.id].status = SNOOZED,
                                           ![r.id].snoozed_until = r.snoozed_until]
             /\ resp' = [op |-> "snooze", code |-> HTTP_OK,
                         body |-> task_occurrences'[r.id]]
             /\ UNCHANGED task_completions]_vars

\* an accepted snooze has returned the occurrence, SNOOZED until an instant
\* after the current time
C11_Witness ==
  /\ resp.op = "snooze"
  /\ resp.code = HTTP_OK
  /\ resp.body.status = SNOOZED
  /\ resp.body.snoozed_until > now
  /\ task_occurrences[resp.body.id] = resp.body

C13_SkipReturnsSkipped ==
  [][\A r \in BagToSet(call) :
        (skip_write(r) /\ task_occurrences[r.id].status = PENDING)
        => /\ resp'.code = HTTP_OK
           /\ resp'.body.status = SKIPPED]_vars

\* C14: assign never changes the status or snoozed_until of the occurrence:
\* its write sets assigned_to only, and a rejected assign writes nothing.
C14_AssignKeepsStatus ==
  [][/\ \A id \in OccIds, u \in Callers, a \in Users :
          assign_read(id, u, a) => UNCHANGED <<task_occurrences, task_completions>>
     /\ \A r \in BagToSet(call) :
          assign_write(r)
          => task_occurrences' =
               [task_occurrences EXCEPT ![r.id].assigned_to = r.assigned_to]]_vars

\* C15: reopen is accepted exactly when the status read is DONE; a rejected
\* reopen writes nothing; an accepted reopen sets the status to PENDING with
\* snoozed_until null, changes nothing else and leaves task_completions as
\* it is.
C15_ReopenOnlyFromDone ==
  [][/\ \A id \in OccIds, u \in Callers :
          (/\ check_household_access(HouseholdOf(task_occurrences[id]), u)
           /\ reopen_read(id, u))
          => /\ UNCHANGED <<task_occurrences, task_completions>>
             /\ IF task_occurrences[id].status = DONE
                THEN /\ resp' = NoResp
                     /\ call' = call (+) SetToBag({[op |-> "reopen", id |-> id]})
                ELSE /\ resp' = [op |-> "reopen", code |-> HTTP_CONFLICT,
                                 body |-> NULL]
                     /\ call' = call
     /\ \A r \in BagToSet(call) :
          reopen_write(r)
          => /\ task_occurrences' =
                  [task_occurrences EXCEPT ![r.id].status = PENDING,
                                           ![r.id].snoozed_until = NoInstant]
             /\ resp' = [op |-> "reopen", code |-> HTTP_OK,
                         body |-> task_occurrences'[r.id]]
             /\ UNCHANGED task_completions]_vars

\* a reopen has returned the occurrence PENDING with snoozed_until null and
\* the completion row of the occurrence is still there
C15_Witness ==
  /\ resp.op = "reopen"
  /\ resp.code = HTTP_OK
  /\ resp.body.status = PENDING
  /\ resp.body.snoozed_until = NoInstant
  /\ Cardinality(CompletionsOf(task_completions, resp.body.id)) = 1

\* C16: scheduling is idempotent: whatever the number of schedule calls, no two
\* notifications are for the same occurrence, recipient and scheduled-for
\* instant (here even of the same type and channel)
C16_OneNotificationPerSlot ==
  \A m, n \in DOMAIN notifications :
     (/\ notifications[m].occurrence_id = notifications[n].occurrence_id
      /\ notifications[m].member_id = notifications[n].member_id
      /\ notifications[m].channel = notifications[n].channel
      /\ reminders[m].type = reminders[n].type
      /\ reminders[m].scheduled_for = reminders[n].scheduled_for)
     => m = n

\* C17: a notification is attempted at most once, whatever the sequence or
\* interleaving of the worker's cycles: it is handed to the transport once
C17_AttemptedAtMostOnce ==
  \A n \in DOMAIN transport : Len(transport[n]) <= 1

\* C18: no notification is handed to the transport before the instant the
\* scheduling computed for it
C18_NotBeforeScheduledFor ==
  \A n \in DOMAIN transport :
     \A k \in 1..Len(transport[n]) : transport[n][k] >= reminders[n].scheduled_for

\* C19: an iteration of the scheduling loop creates a row exactly when the
\* computed instant is strictly after the time of the iteration, and the row
\* it creates is for an instant strictly after its creation
C19_NeverScheduledInThePast ==
  [][(sched.pc = "inserting" /\ sched' # sched) =>
       /\ (DOMAIN notifications' # DOMAIN notifications)
            <=> (sched.reminder_times[sched.i].scheduled_for > utcnow)
       /\ \A n \in DOMAIN notifications' \ DOMAIN notifications :
             /\ reminders'[n].scheduled_for = sched.reminder_times[sched.i].scheduled_for
             /\ reminders'[n].scheduled_for > notifications'[n].created_at]_vars

\* a schedule call has returned: it created a row for the reminder of two
\* hours before, and none for the one of the day before, whose instant is the
\* present hour
C19_Witness ==
  /\ resp.op = "schedule"
  /\ Len(resp.body) = 1
  /\ resp.body[1].type = "2h_before"
  /\ resp.body[1].notification_id \in DOMAIN notifications
  /\ resp.body[1].scheduled_for > utcnow
  /\ \E id \in OccIds : task_occurrences[id].due_at - HoursPerDay = utcnow

\* C20: the reminders a schedule call has computed are in chronological order
C20_ChronologicalOrder ==
  sched.pc = "inserting" =>
    \A j, k \in 1..Len(sched.reminder_times) :
       j < k => sched.reminder_times[j].scheduled_for
                  <= sched.reminder_times[k].scheduled_for

\* C21: the scheduler respects the quiet hours of the recipient: no reminder
\* a call has scheduled is at an hour inside the quiet-hours window of the
\* preferences of the call
C21_RespectsQuietHours ==
  (sched.pc = "inserting" /\ sched.quiet_hours # <<>>) =>
    \A k \in 1..Len(sched.scheduled_reminders) :
       LET hour == sched.scheduled_reminders[k].scheduled_for % HoursPerDay
           start == sched.quiet_hours[1]
           end == sched.quiet_hours[2]
       IN ~(IF start <= end THEN start <= hour /\ hour < end
            ELSE hour >= start \/ hour < end)

\* C22: generation for a definition that does not exist, or whose rule is
\* empty, returns an empty list with no error and creates nothing: the call
\* answers [] at once, the table is as it was, and no occurrence is ever of
\* such a definition
C22_NoRuleNoOccurrence ==
  [][/\ \A d \in TaskDefArgs, s \in Dates, e \in Dates, m \in MaxOccurrencesArgs :
          (/\ \/ d \notin DOMAIN task_definitions
              \/ task_definitions[d].recurrence_rule = ""
           /\ generate_start(d, s, e, m))
          => /\ resp' = [op |-> "generate", code |-> HTTP_OK, body |-> <<>>]
             /\ UNCHANGED <<task_occurrences, task_completions, call>>
     /\ \A i \in DOMAIN task_occurrences' :
          /\ task_occurrences'[i].task_id \in DOMAIN task_definitions
          /\ task_definitions[task_occurrences'[i].task_id].recurrence_rule # ""]_vars

\* a generation call has returned the empty list while the table holds
\* occurrences (of the definition with a rule)
C22_Witness ==
  /\ resp.op = "generate"
  /\ resp.code = HTTP_OK
  /\ resp.body = <<>>
  /\ OccIds # {}

\* C23: household generation isolates failures: a call never fails, and
\* when it has ended every definition of the household with a rule has its
\* occurrences of the window, whatever happened to the other definitions
C23_FailuresIsolated ==
  (resp.op = "generate_household" /\ resp.code # HTTP_FORBIDDEN) =>
    /\ resp.code = HTTP_OK
    /\ \A k \in 1..Len(HouseholdDates(get_task_definitions("h1"),
                                      Today, Today + resp.body.days_ahead)) :
          LET pair == HouseholdDates(get_task_definitions("h1"),
                                     Today, Today + resp.body.days_ahead)[k]
          IN UniqueViolation(task_occurrences, pair[1], pair[2])

\* C24: generate_occurrences_between rejects a window before it produces any
\* date: it raises InvalidInput on the window exactly when the end is before
\* the start, BusinessRuleViolation exactly when the end is more than 365
\* days after the start, and either way returns nothing; a window of 0 to
\* 365 days gets neither
C24_WindowRejectedExactlyWhen ==
  (recurrence.op = "between" /\ recurrence.pc = "returned") =>
    LET span == recurrence.end_date - recurrence.start_date
        result == recurrence.result
    IN /\ (result.error = "InvalidInput" /\ result.field = "date_range")
            <=> span < 0
       /\ result.error = "BusinessRuleViolation" <=> span > 365
       /\ (span < 0 \/ span > 365) => result.occurrences = <<>>
       /\ (0 <= span /\ span <= 365 /\ RuleValid(recurrence.rrule_string))
            => result.error = "none"

\* a call over a window of exactly 365 days has returned dates
C24_Witness ==
  /\ recurrence.op = "between"
  /\ recurrence.pc = "returned"
  /\ recurrence.end_date - recurrence.start_date = 365
  /\ recurrence.result.error = "none"
  /\ recurrence.result.occurrences # <<>>

\* C25: for a valid rule and an accepted window, generate_occurrences_between
\* returns the first max_occurrences, in order, of the rule's datetimes of the
\* window, less those on a Saturday or Sunday when weekends are excluded and
\* those on a holiday of their own year when holidays are excluded
C25_FirstMaxOfFiltered ==
  (/\ recurrence.op = "between"
   /\ recurrence.pc = "returned"
   /\ recurrence.result.error = "none") =>
    LET raw == RRuleBetween(recurrence.rrule_string, recurrence.start_date,
                            recurrence.end_date)
        Kept(dt) ==
          /\ recurrence.exclude_weekends => (dt[1] % 7) \notin {5, 6}
          /\ recurrence.exclude_holidays
               => dt[1] \notin get_holidays(dt[1] \div 365)
        filtered == SelectSeq(raw, Kept)
        max == IF recurrence.max_occurrences = NoMax THEN MAX_OCCURRENCES_PER_YEAR
               ELSE recurrence.max_occurrences
        occurrences == recurrence.result.occurrences
    IN /\ Len(occurrences) <= max
       /\ occurrences = SubSeq(filtered, 1, IF Len(filtered) < max
                                            THEN Len(filtered) ELSE max)
       /\ \A j, k \in 1..Len(occurrences) :
             j < k => \/ occurrences[j][1] < occurrences[k][1]
                      \/ /\ occurrences[j][1] = occurrences[k][1]
                         /\ occurrences[j][2] < occurrences[k][2]

\* a call that excluded weekends and holidays has returned exactly
\* max_occurrences datetimes, the window holding more and a holiday of the
\* second year being among those left out
C25_Witness ==
  /\ recurrence.op = "between"
  /\ recurrence.pc = "returned"
  /\ recurrence.exclude_weekends
  /\ recurrence.exclude_holidays
  /\ recurrence.max_occurrences = 3
  /\ Len(recurrence.result.occurrences) = 3
  /\ recurrence.start_date < 365
  /\ recurrence.result.occurrences[3][1] > 365

\* C26 as stated: validate_rrule raises the too-many-occurrences error
\* exactly when the rule has more than 365 occurrences in the next 365 days
C26_TooManyAbove365 ==
  (/\ recurrence.op = "validate"
   /\ recurrence.pc = "returned"
   /\ RuleValid(recurrence.rrule_string)) =>
    (recurrence.result.error = "BusinessRuleViolation"
       <=> Len(RRuleBetween(recurrence.rrule_string, recurrence.today,
                            recurrence.today + 364)) > 365)

\* C26 amended: validate_rrule raises the too-many-occurrences error exactly
\* when the rule has more than 366 occurrences from today to the end of the
\* day 365 days later; with 366 or fewer it returns a valid RecurrenceInfo
C26_TooManyAbove366 ==
  (/\ recurrence.op = "validate"
   /\ recurrence.pc = "returned"
   /\ RuleValid(recurrence.rrule_string)) =>
    LET n == Len(RRuleBetween(recurrence.rrule_string, recurrence.today,
                              recurrence.today + 365))
    IN /\ recurrence.result.error = "BusinessRuleViolation" <=> n > 366
       /\ n <= 366 => (recurrence.result.error = "none"
                       /\ recurrence.result.is_valid)

\* a validation of a rule with exactly 366 occurrences in the window has
\* returned a valid RecurrenceInfo
C26_Witness ==
  /\ recurrence.op = "validate"
  /\ recurrence.pc = "returned"
  /\ RuleValid(recurrence.rrule_string)
  /\ Len(RRuleBetween(recurrence.rrule_string, recurrence.today,
                      recurrence.today + 365)) = 366
  /\ recurrence.result.is_valid

\* C30: calculate_next_occurrences never examines more than 3 x count dates
\* of the rule, whatever the rule and the exclusion flags
C30_AtMostThreeTimesCount ==
  recurrence.op = "next" => recurrence.examined <= 3 * recurrence.count

\* C27: a snooze, skip or assign that finishes on an occurrence whose
\* completion has committed leaves the occurrence DONE
C27_CompletionNotOverwritten ==
  [][\A r \in BagToSet(call) :
       (/\ r.op \in {"snooze", "skip", "assign"}
        /\ CopiesIn(r, call') < CopiesIn(r, call)
        /\ task_occurrences[r.id].status = DONE
        /\ CompletionsOf(task_completions, r.id) # {})
         => task_occurrences'[r.id].status = DONE]_vars

\* C28: once a sweep has run from start to end with nothing in between, no
\* occurrence in its scope whose due instant has passed is left PENDING, or
\* SNOOZED with a snoozed_until that has been reached
C28_DueBecomesOverdue ==
  quiet.n = 2 =>
    \A i \in OccIds :
      LET row == task_occurrences[i]
      IN (/\ row.due_at < now
          /\ (quiet.household_id # NULL => HouseholdOf(row) = quiet.household_id))
           => ~ \/ row.status = PENDING
                \/ row.status = SNOOZED /\ row.snoozed_until <= now

\* C29: the list list_household_occurrences returns holds no occurrence twice
C29_EachOccurrenceOnce ==
  (resp.op = "list" /\ resp.code = HTTP_OK) =>
    \A a, b \in DOMAIN resp.body : a # b => resp.body[a].id # resp.body[b].id

=============================================================================
